---- MODULE Spec2Model ----
(***************************************************************************)
(* A model of the presentation generator: intent detection and the         *)
(* generation pipeline (generate_ppt.py), the storage gateway              *)
(* (azure_blob_utils.py), the design-extraction batch job                  *)
(* (design_extractor.py) and the slide-ingestion job (ingestion_chroma.py).*)
(*                                                                         *)
(* Text is modelled as a sequence of one-character strings, so that        *)
(* lower-casing, capitalising, substring tests and the regular-expression  *)
(* search act on characters as they do in the program.                     *)
(***************************************************************************)
EXTENDS Integers, Sequences, FiniteSets, TLC

VARIABLES
    \* ---- parse_user_intent called on its own (SpecIntent)
    ipc, iprompt, iresult,
    \* ---- generate_presentation (Spec)
    pc, prompt, arg_num_slides, arg_theme,
    requested_num_slides, theme,
    refs, design_context, reference_text,
    llm_request, plan_outcome, plan,
    slides, image_outcomes,
    doc, out_path, blobs, log, ret,
    \* ---- the design-extraction batch job (SpecExtract)
    ext_pc, ext_run, todo, cache, downloads, extractions, skips, clock, cache_after_first,
    \* ---- extract_slide_elements called on its own (SpecSlide)
    spc, slide_in, slide_data,
    \* ---- the ingestion job (SpecIngest)
    collection, next_uuid, ingests, deck_slides

intentVars == <<ipc, iprompt, iresult>>

genVars ==
    <<pc, prompt, arg_num_slides, arg_theme, requested_num_slides, theme,
      refs, design_context, reference_text, llm_request, plan_outcome, plan,
      slides, image_outcomes, doc, out_path, blobs, log, ret>>

extractVars ==
    <<ext_pc, ext_run, todo, cache, downloads, extractions, skips, clock, cache_after_first>>

slideVars == <<spc, slide_in, slide_data>>

ingestVars == <<collection, next_uuid, ingests, deck_slides>>

notExtractVars == <<intentVars, genVars, slideVars, ingestVars>>

notGenVars == <<intentVars, extractVars, slideVars, ingestVars>>

vars == <<intentVars, genVars, extractVars, slideVars, ingestVars>>

(***************************************************************************)
(* Python values.                                                          *)
(***************************************************************************)
\* Python's None, and a present value: an optional value is one of the two.
None == [some |-> FALSE]

Some(v) == [some |-> TRUE, val |-> v]

\* Python truthiness of an optional number: None and 0 are falsy.
TruthyNum(x) == x.some /\ x.val # 0

\* Python truthiness of an optional string or list: None and the empty one are falsy.
TruthySeq(x) == x.some /\ Len(x.val) > 0

\* "a or b" on optional numbers, and on optional strings.
OrNum(a, b) == IF TruthyNum(a) THEN a ELSE b

OrSeq(a, b) == IF TruthySeq(a) THEN a ELSE b

Min(a, b) == IF a < b THEN a ELSE b

(***************************************************************************)
(* Characters and strings.                                                 *)
(***************************************************************************)
LowerCase ==
    <<"a", "b", "c", "d", "e", "f", "g", "h", "i", "j", "k", "l", "m",
      "n", "o", "p", "q", "r", "s", "t", "u", "v", "w", "x", "y", "z">>

UpperCase ==
    <<"A", "B", "C", "D", "E", "F", "G", "H", "I", "J", "K", "L", "M",
      "N", "O", "P", "Q", "R", "S", "T", "U", "V", "W", "X", "Y", "Z">>

Digits ==
    <<"0", "1", "2", "3", "4", "5", "6", "7", "8", "9">>

\* The characters the pattern's \s matches among those the model uses.
Whitespace == {" ", "\t", "\n"}

IndexIn(c, alphabet) == CHOOSE i \in 1..Len(alphabet) : alphabet[i] = c

IsIn(c, alphabet) == \E i \in 1..Len(alphabet) : alphabet[i] = c

\* The lower-case letter of each upper-case letter, and the reverse.
ToLower == [c \in {UpperCase[i] : i \in 1..26} |-> LowerCase[IndexIn(c, UpperCase)]]

ToUpper == [c \in {LowerCase[i] : i \in 1..26} |-> UpperCase[IndexIn(c, LowerCase)]]

LowerChar(c) == IF c \in DOMAIN ToLower THEN ToLower[c] ELSE c

UpperChar(c) == IF c \in DOMAIN ToUpper THEN ToUpper[c] ELSE c

\* str.lower()
Lower(s) == [i \in 1..Len(s) |-> LowerChar(s[i])]

\* str.capitalize(): the first character upper-cased, the rest lower-cased.
Capitalize(s) == [i \in 1..Len(s) |-> IF i = 1 THEN UpperChar(s[i]) ELSE LowerChar(s[i])]

\* t occurs in s at position i.
OccursAt(t, s, i) == i >= 1 /\ i + Len(t) - 1 <= Len(s) /\ SubSeq(s, i, i + Len(t) - 1) = t

\* Python's "t in s" on strings.
Contains(s, t) == \E i \in 1..(Len(s) + 1) : OccursAt(t, s, i)

DigitSet == {Digits[i] : i \in 1..Len(Digits)}

IsDigit(c) == c \in DigitSet

DigitVal(c) == IndexIn(c, Digits) - 1

\* int() of a string of decimal digits.
RECURSIVE ParseInt(_)
ParseInt(ds) ==
    IF Len(ds) = 0 THEN 0
    ELSE 10 * ParseInt(SubSeq(ds, 1, Len(ds) - 1)) + DigitVal(ds[Len(ds)])

(***************************************************************************)
(* The words of the program text and of the prompts.                       *)
(***************************************************************************)
W_slide ==
    <<"s", "l", "i", "d", "e">>

W_corporate ==
    <<"c", "o", "r", "p", "o", "r", "a", "t", "e">>

W_modern ==
    <<"m", "o", "d", "e", "r", "n">>

W_minimal ==
    <<"m", "i", "n", "i", "m", "a", "l">>

W_professional ==
    <<"p", "r", "o", "f", "e", "s", "s", "i", "o", "n", "a", "l">>

W_dark ==
    <<"d", "a", "r", "k">>

W_light ==
    <<"l", "i", "g", "h", "t">>

W_colorful ==
    <<"c", "o", "l", "o", "r", "f", "u", "l">>

W_gradient ==
    <<"g", "r", "a", "d", "i", "e", "n", "t">>

W_flat ==
    <<"f", "l", "a", "t">>

\* "Create a 5-slide modern presentation about healthcare design."
P_healthcare ==
    <<"C", "r", "e", "a", "t", "e", " ", "a", " ", "5", "-", "s", "l", "i", "d", "e",
      " ", "m", "o", "d", "e", "r", "n", " ", "p", "r", "e", "s", "e", "n", "t", "a",
      "t", "i", "o", "n", " ", "a", "b", "o", "u", "t", " ", "h", "e", "a", "l", "t",
      "h", "c", "a", "r", "e", " ", "d", "e", "s", "i", "g", "n", ".">>

\* "Create a 3-slide minimal presentation about onboarding"
P_onboarding ==
    <<"C", "r", "e", "a", "t", "e", " ", "a", " ", "3", "-", "s", "l", "i", "d", "e",
      " ", "m", "i", "n", "i", "m", "a", "l", " ", "p", "r", "e", "s", "e", "n", "t",
      "a", "t", "i", "o", "n", " ", "a", "b", "o", "u", "t", " ", "o", "n", "b", "o",
      "a", "r", "d", "i", "n", "g">>

\* "Make 5 slides, dark then corporate"
P_five_dark ==
    <<"M", "a", "k", "e", " ", "5", " ", "s", "l", "i", "d", "e", "s", ",", " ", "d",
      "a", "r", "k", " ", "t", "h", "e", "n", " ", "c", "o", "r", "p", "o", "r", "a",
      "t", "e">>

\* "Quarterly results"
P_plain ==
    <<"Q", "u", "a", "r", "t", "e", "r", "l", "y", " ", "r", "e", "s", "u", "l", "t", "s">>

S_Modern ==
    <<"M", "o", "d", "e", "r", "n">>

S_Corporate ==
    <<"C", "o", "r", "p", "o", "r", "a", "t", "e">>

S_Light ==
    <<"L", "i", "g", "h", "t">>

F_Dark ==
    <<"D", "a", "r", "k">>

F_three_slides ==
    <<"3", " ", "s", "l", "i", "d", "e", "s">>

(***************************************************************************)
(* generate_ppt.py: parse_user_intent                                      *)
(***************************************************************************)
\* The end of the longest run of digits that starts at i (i - 1 when s[i] is no digit).
RECURSIVE DigitRunEnd(_, _)
DigitRunEnd(s, i) ==
    IF i <= Len(s) /\ IsDigit(s[i]) THEN DigitRunEnd(s, i + 1) ELSE i - 1

\* The end of the longest run of whitespace that starts at i (i - 1 when there is none).
RECURSIVE SpaceRunEnd(_, _)
SpaceRunEnd(s, i) ==
    IF i <= Len(s) /\ s[i] \in Whitespace THEN SpaceRunEnd(s, i + 1) ELSE i - 1

\* The pattern (\d+)\s+slides? matches s from position i: one or more digits,
\* one or more whitespace characters, then "slide" (the optional "s" never
\* decides whether there is a match).
slide_pattern(s, i) ==
    LET d == DigitRunEnd(s, i)
        w == SpaceRunEnd(s, d + 1)
    IN  /\ d >= i
        /\ w >= d + 1
        /\ OccursAt(W_slide, s, w + 1)

\* re.search: the leftmost position where the pattern matches, and group(1)
\* there (the digits); None when it matches nowhere.
re_search_slides(s) ==
    IF \E i \in 1..Len(s) : slide_pattern(s, i)
    THEN LET i == CHOOSE k \in 1..Len(s) :
                    /\ slide_pattern(s, k)
                    /\ \A j \in 1..(k - 1) : ~slide_pattern(s, j)
         IN  Some(SubSeq(s, i, DigitRunEnd(s, i)))
    ELSE None

theme_words ==
    <<W_corporate, W_modern, W_minimal, W_professional,
      W_dark, W_light, W_colorful, W_gradient, W_flat>>

\* The loop without its break: the last vocabulary entry found wins.
RECURSIVE theme_loop_mut(_, _)
theme_loop_mut(lowered, k) ==
    IF k > Len(theme_words) THEN None
    ELSE LET rest == theme_loop_mut(lowered, k + 1)
         IN  IF rest.some THEN rest
             ELSE IF Contains(lowered, theme_words[k]) THEN Some(Capitalize(theme_words[k]))
             ELSE None

\* for t in theme_words: if t in prompt.lower(): theme = t.capitalize(); break
RECURSIVE theme_loop(_, _)
theme_loop(lowered, k) ==
    IF k > Len(theme_words) THEN None
    ELSE IF Contains(lowered, theme_words[k]) THEN Some(Capitalize(theme_words[k]))
    ELSE theme_loop(lowered, k + 1)

parse_user_intent(p) ==
    LET match == re_search_slides(Lower(p))
    IN  [num_slides |-> IF match.some THEN Some(ParseInt(match.val)) ELSE None,
         theme      |-> theme_loop(Lower(p), 1)]

(***************************************************************************)
(* Each specification runs one part of the program; the variables of the   *)
(* other parts stay as below.                                              *)
(***************************************************************************)
IntentOff ==
    /\ ipc = "off"
    /\ iprompt = <<>>
    /\ iresult = None

GenOff ==
    /\ pc = "off"
    /\ prompt = <<>>
    /\ arg_num_slides = None
    /\ arg_theme = None
    /\ requested_num_slides = None
    /\ theme = None
    /\ refs = <<>>
    /\ design_context = <<>>
    /\ reference_text = <<>>
    /\ llm_request = None
    /\ plan_outcome = "none"
    /\ plan = <<>>
    /\ slides = <<>>
    /\ image_outcomes = <<>>
    /\ doc = <<>>
    /\ out_path = None
    /\ blobs = <<>>
    /\ log = None
    /\ ret = None

ExtractOff ==
    /\ ext_pc = "off"
    /\ ext_run = 0
    /\ todo = <<>>
    /\ cache = <<>>
    /\ downloads = {}
    /\ extractions = {}
    /\ skips = {}
    /\ clock = 0
    /\ cache_after_first = None

SlideOff ==
    /\ spc = "off"
    /\ slide_in = None
    /\ slide_data = None

IngestOff ==
    /\ collection = {}
    /\ next_uuid = 0
    /\ ingests = <<>>
    /\ deck_slides = <<>>

(***************************************************************************)
(* SpecIntent: parse_user_intent on prompts put together from fragments.   *)
(***************************************************************************)
MaxFrags == 4

Fragments ==
    {<<"1">>, <<"5">>, <<" ">>, <<"-">>,
     W_slide, F_three_slides, F_Dark, W_corporate}

RECURSIVE Concat(_)
Concat(fs) == IF Len(fs) = 0 THEN <<>> ELSE Head(fs) \o Concat(Tail(fs))

FragmentPrompts ==
    {Concat(fs) : fs \in UNION {[1..n -> Fragments] : n \in 0..MaxFrags}}

ExamplePrompts == {P_healthcare, P_onboarding, P_five_dark, P_plain}

InitIntent ==
    /\ ipc = "call"
    /\ iprompt \in FragmentPrompts \cup ExamplePrompts
    /\ iresult = None
    /\ GenOff
    /\ ExtractOff
    /\ SlideOff
    /\ IngestOff

ParseIntent ==
    /\ ipc = "call"
    /\ iresult' = parse_user_intent(iprompt)
    /\ ipc' = "return"
    /\ UNCHANGED <<iprompt, genVars, extractVars, slideVars, ingestVars>>

NextIntent == ParseIntent

SpecIntent == InitIntent /\ [][NextIntent]_vars

(***************************************************************************)
(* generate_ppt.py: the generation pipeline                                *)
(***************************************************************************)
\* A blob or deck name "<dir>/<stem>.<ext>" (dir "" when the name has no directory).
BlobName(dir, stem, ext) == [dir |-> dir, stem |-> stem, ext |-> ext]

\* os.path.basename
basename(name) == [dir |-> "", stem |-> name.stem, ext |-> name.ext]

\* The cache file of a deck: os.path.join("design_jsons", basename + ".json").
design_json_path(name) == [cache_dir |-> "design_jsons", file |-> basename(name)]

\* s[:n]
Take(s, n) == SubSeq(s, 1, Min(n, Len(s)))

SnippetChars == 500

\* The hits the search service can return: a deck name and the slide's text.
HitDecks == {BlobName("decks", "a", "pptx"), BlobName("", "b", "pptx")}

Hits ==
    {[ppt_name |-> BlobName("decks", "a", "pptx"), text |-> <<>>],
     [ppt_name |-> BlobName("", "b", "pptx"), text |-> <<"K", "P", "I">>]}

MaxHits == 1

\* search_utils.semantic_search: an ordered list of hits, empty when the index
\* is empty, nothing matches or the store is unreachable; it never raises.
semantic_search_results == UNION {[1..n -> Hits] : n \in 0..MaxHits}

\* What reading design_jsons/<basename>.json meets: no file, a file json.load
\* reads, or a file it fails on.
FileStates == {"absent", "readable", "unparseable"}

CacheFiles == {design_json_path(d) : d \in HitDecks}

\* The for loop over the hits: the non-empty snippets, in hit order.
RECURSIVE collect_reference_text(_)
collect_reference_text(rs) ==
    IF Len(rs) = 0 THEN <<>>
    ELSE LET text_snip == Take(rs[1].text, SnippetChars)
         IN  (IF Len(text_snip) > 0 THEN <<text_snip>> ELSE <<>>)
                \o collect_reference_text(Tail(rs))

\* The for loop over the hits: the design records loaded, in hit order.
RECURSIVE collect_design_context(_, _)
collect_design_context(rs, files) ==
    IF Len(rs) = 0 THEN <<>>
    ELSE LET json_path == design_json_path(rs[1].ppt_name)
         IN  (IF files[json_path] = "readable" THEN <<[design_of |-> json_path.file]>> ELSE <<>>)
                \o collect_design_context(Tail(rs), files)

\* A slide plan entry as the model returns it: a JSON object whose keys may be
\* missing (None stands for a missing key).
E_text ==
    [title |-> Some("Alpha"), bullets |-> Some(<<"a1", "a2">>),
     visual_required |-> Some(FALSE), visual_prompt |-> None]

E_visual ==
    [title |-> Some("Beta"), bullets |-> Some(<<"b1">>),
     visual_required |-> Some(TRUE), visual_prompt |-> Some("a chart")]

E_bare ==
    [title |-> None, bullets |-> None,
     visual_required |-> Some(TRUE), visual_prompt |-> None]

PlanEntries == {E_text, E_visual, E_bare}

E_second ==
    [title |-> Some("Gamma"), bullets |-> Some(<<"g1">>),
     visual_required |-> Some(FALSE), visual_prompt |-> None]

E_third ==
    [title |-> Some("Delta"), bullets |-> Some(<<>>),
     visual_required |-> Some(FALSE), visual_prompt |-> None]

\* A plan of three entries, none of which asks for a visual.
ThreeTextSlides == <<E_text, E_second, E_third>>

MaxPlan == 2

Plans == UNION {[1..n -> PlanEntries] : n \in 1..MaxPlan} \cup {ThreeTextSlides}

\* What the chat-completion call can come to: it raises, or it returns text
\* that is prose, the empty array, an object that is no array of entries, or a
\* plan.
ChatOutcomes ==
    {[kind |-> "raises"], [kind |-> "prose"], [kind |-> "empty_array"]}
        \cup {[kind |-> "plan", value |-> p] : p \in Plans}

\* utils.safe_json_load: the parsed structure, or None on any parse error; it
\* never raises.
safe_json_load(raw) ==
    CASE raw.kind = "prose" -> None
      [] raw.kind = "empty_array" -> Some(<<>>)
      [] raw.kind = "plan" -> Some(raw.value)

fallback_plan ==
    <<[title |-> Some("Intro"), bullets |-> Some(<<"Overview">>),
       visual_required |-> Some(FALSE), visual_prompt |-> None]>>

\* The request sent to the chat model, as far as intent decides it: the theme
\* line of the system prompt and the slide-count sentence of the user prompt.
llm_instruction(num_slides, th) ==
    [theme_preference |-> IF TruthySeq(th) THEN th ELSE None,
     produce_exactly  |-> IF TruthyNum(num_slides) THEN num_slides ELSE None]

\* The plan call that lets the failure of the call through.
call_llm_plan_mut(outcome) ==
    IF outcome.kind = "raises" THEN <<>>
    ELSE LET parsed == safe_json_load(outcome)
         IN  IF ~TruthySeq(parsed) THEN <<>> ELSE parsed.val

\* call_llm_plan's try block: the plan the pipeline goes on with.
call_llm_plan(outcome) ==
    IF outcome.kind = "raises" THEN fallback_plan
    ELSE LET parsed == safe_json_load(outcome)
         IN  IF ~TruthySeq(parsed) THEN fallback_plan ELSE parsed.val

\* What the image step can come to.
ImageOutcomes == {"ok", "generate_raises", "download_raises"}

\* An image step whose download failure leaves the path of a file never written.
generate_visual_image_mut(slide_no, outcome) ==
    IF outcome = "generate_raises" THEN None ELSE Some([tmp_png |-> slide_no])

\* generate_visual_image: the path of the temporary file, or None on any failure.
generate_visual_image(slide_no, outcome) ==
    IF outcome = "ok" THEN Some([tmp_png |-> slide_no]) ELSE None

\* dict.get(key, default) on a plan entry.
Get(opt, default) == IF opt.some THEN opt.val ELSE default

\* One pass of the loop "for sp in plan" without the image step.
slide_of(sp, image_path) ==
    [title |-> Get(sp.title, "Untitled"),
     bullets |-> Get(sp.bullets, <<>>),
     image_path |-> image_path]

\* build_ppt: a slide of the document per generated slide: the title, the
\* content placeholder's paragraphs (the one tf.clear() leaves, then one per
\* bullet) and the picture, when its placement succeeds.
build_ppt(ss, failing) ==
    [i \in 1..Len(ss) |->
        [title      |-> ss[i].title,
         paragraphs |-> <<"">> \o ss[i].bullets,
         picture    |-> IF ss[i].image_path.some /\ i \notin failing
                        THEN ss[i].image_path ELSE None]]

\* The bullets of a slide of the document: the paragraphs appended.
BulletsOf(dslide) == Tail(dslide.paragraphs)

local_pptx == [tmp |-> "generated_presentation_<hex8>.pptx"]

uploaded_pptx == "generated_<hex8>.pptx"

\* A name in the output container: the deck itself, and its log "logs/<name>.json".
deck_blob(fname) == [folder |-> "", file |-> fname]

log_blob(fname) == [folder |-> "logs", file |-> fname]

\* container_client.upload_blob(name, data, overwrite=True)
upload_blob(store, name, data) == [n \in DOMAIN store \cup {name} |-> IF n = name THEN data ELSE store[n]]

generation_log ==
    [timestamp |-> "now_ts", prompt |-> prompt, style |-> "Auto",
     theme |-> theme, requested_num_slides |-> requested_num_slides,
     references_used |-> Len(reference_text),
     design_jsons_used |-> Len(design_context),
     slides_generated |-> Len(slides),
     ppt_file |-> uploaded_pptx]

GenPrompts == {P_onboarding, P_five_dark}

ArgNumSlides == {None, Some(0), Some(2)}

ArgThemes == {None, Some(S_Light)}

Init ==
    /\ pc = "intent"
    /\ prompt \in GenPrompts
    /\ arg_num_slides \in ArgNumSlides
    /\ arg_theme \in ArgThemes
    /\ requested_num_slides = None
    /\ theme = None
    /\ refs = <<>>
    /\ design_context = <<>>
    /\ reference_text = <<>>
    /\ llm_request = None
    /\ plan_outcome = "none"
    /\ plan = <<>>
    /\ slides = <<>>
    /\ image_outcomes = <<>>
    /\ doc = <<>>
    /\ out_path = None
    /\ blobs = <<>>
    /\ log = None
    /\ ret = None
    /\ IntentOff
    /\ ExtractOff
    /\ SlideOff
    /\ IngestOff

\* requested_num_slides = requested_num_slides or detected_slides;
\* theme = theme or detected_theme
ResolveIntent ==
    /\ pc = "intent"
    /\ LET detected == parse_user_intent(prompt)
       IN  /\ requested_num_slides' = OrNum(arg_num_slides, detected.num_slides)
           /\ theme' = OrSeq(arg_theme, detected.theme)
    /\ pc' = "search"
    /\ UNCHANGED <<prompt, arg_num_slides, arg_theme, refs, design_context, reference_text,
                   llm_request, plan_outcome, plan, slides, image_outcomes, doc,
                   out_path, blobs, log, ret, notGenVars>>

\* refs = semantic_search(...) or [], and the loop over the hits.
Retrieve ==
    /\ pc = "search"
    /\ \E hits \in semantic_search_results, files \in [CacheFiles -> FileStates] :
        /\ refs' = hits
        /\ reference_text' = collect_reference_text(hits)
        /\ design_context' = collect_design_context(hits, files)
    /\ pc' = "plan"
    /\ UNCHANGED <<prompt, arg_num_slides, arg_theme, requested_num_slides, theme,
                   llm_request, plan_outcome, plan, slides, image_outcomes, doc,
                   out_path, blobs, log, ret, notGenVars>>

\* plan = call_llm_plan(...)
PlanCall ==
    /\ pc = "plan"
    /\ \E outcome \in ChatOutcomes :
        /\ llm_request' = Some(llm_instruction(requested_num_slides, theme))
        /\ plan_outcome' = outcome.kind
        /\ plan' = call_llm_plan(outcome)
    /\ slides' = <<>>
    /\ pc' = "slides"
    /\ UNCHANGED <<prompt, arg_num_slides, arg_theme, requested_num_slides, theme,
                   refs, design_context, reference_text, image_outcomes, doc,
                   out_path, blobs, log, ret, notGenVars>>

\* One pass of "for sp in plan": the slide, with its image when one is required.
MakeSlide ==
    /\ pc = "slides"
    /\ Len(slides) < Len(plan)
    /\ LET slide_no == Len(slides) + 1
           sp == plan[slide_no]
       IN  IF Get(sp.visual_required, FALSE)
           THEN \E outcome \in ImageOutcomes :
                    /\ slides' = Append(slides, slide_of(sp, generate_visual_image(slide_no, outcome)))
                    /\ image_outcomes' = Append(image_outcomes, outcome)
           ELSE /\ slides' = Append(slides, slide_of(sp, None))
                /\ image_outcomes' = Append(image_outcomes, "not_required")
    /\ UNCHANGED <<pc, prompt, arg_num_slides, arg_theme, requested_num_slides, theme,
                   refs, design_context, reference_text, llm_request, plan_outcome, plan,
                   doc, out_path, blobs, log, ret, notGenVars>>

\* out_path = build_ppt(slides)
BuildPpt ==
    /\ pc = "slides"
    /\ Len(slides) = Len(plan)
    /\ \E failing \in SUBSET {i \in 1..Len(slides) : slides[i].image_path.some} :
        doc' = build_ppt(slides, failing)
    /\ out_path' = Some(local_pptx)
    /\ pc' = "upload_ppt"
    /\ UNCHANGED <<prompt, arg_num_slides, arg_theme, requested_num_slides, theme,
                   refs, design_context, reference_text, llm_request, plan_outcome, plan,
                   slides, image_outcomes, blobs, log, ret, notGenVars>>

\* upload_ppt_to_blob(out_path, fname): a failure to create the container is
\* swallowed, a failure to upload is raised to generate_presentation, which
\* does not catch it.
UploadPpt ==
    /\ pc = "upload_ppt"
    /\ \E create_container_ok \in BOOLEAN, upload_ok \in BOOLEAN :
        IF upload_ok
        THEN /\ blobs' = upload_blob(blobs, deck_blob(uploaded_pptx), [pptx |-> doc])
             /\ pc' = "upload_log"
        ELSE /\ blobs' = blobs
             /\ pc' = "raised"
    /\ UNCHANGED <<prompt, arg_num_slides, arg_theme, requested_num_slides, theme,
                   refs, design_context, reference_text, llm_request, plan_outcome, plan,
                   slides, image_outcomes, doc, out_path, log, ret, notGenVars>>

\* log = {...}; upload_json_to_blob(...); return out_path, log
UploadLog ==
    /\ pc = "upload_log"
    /\ log' = Some(generation_log)
    /\ \E create_container_ok \in BOOLEAN, upload_ok \in BOOLEAN :
        IF upload_ok
        THEN /\ blobs' = upload_blob(blobs, log_blob(uploaded_pptx), [json |-> generation_log])
             /\ ret' = Some([out_path |-> out_path.val, log |-> generation_log])
             /\ pc' = "done"
        ELSE /\ blobs' = blobs
             /\ ret' = ret
             /\ pc' = "raised"
    /\ UNCHANGED <<prompt, arg_num_slides, arg_theme, requested_num_slides, theme,
                   refs, design_context, reference_text, llm_request, plan_outcome, plan,
                   slides, image_outcomes, doc, out_path, notGenVars>>

Next ==
    \/ ResolveIntent
    \/ Retrieve
    \/ PlanCall
    \/ MakeSlide
    \/ BuildPpt
    \/ UploadPpt
    \/ UploadLog

Spec == Init /\ [][Next]_vars

(***************************************************************************)
(* design_extractor.py: the design cache and the batch job                 *)
(***************************************************************************)
OUTPUT_DIR == "design_jsons"

\* json_path = os.path.join(OUTPUT_DIR, f"{os.path.basename(ppt_name)}.json")
json_path_of(blob_name) == [cache_dir |-> OUTPUT_DIR, file |-> basename(blob_name)]

\* A check that finds no deck processed.
ppt_already_processed_mut(files, ppt_name) == FALSE

\* os.path.exists(json_path)
ppt_already_processed(files, ppt_name) == json_path_of(ppt_name) \in DOMAIN files

\* The objects of the dataset container, in listing order: two decks of the
\* same base name, a .ppt deck, and an object that is no deck.
DatasetBlobs ==
    <<BlobName("decks", "a", "pptx"), BlobName("", "b", "ppt"),
      BlobName("", "notes", "txt"), BlobName("old", "a", "pptx")>>

\* blob.name.endswith(".pptx") or blob.name.endswith(".ppt")
is_deck(blob_name) == blob_name.ext \in {"pptx", "ppt"}

\* What one process_blob call can meet: the download raises; the extraction
\* raises; opening the cache file for writing raises; json.dump raises after
\* the file was opened (and so created); or all succeed.
ProcessOutcomes ==
    {"download_raises", "extraction_raises", "open_raises", "dump_raises", "ok"}

\* extract_design_elements: the Design Record, as far as the cache is concerned.
design_record(blob_name, now) ==
    [ppt_name |-> [flattened |-> blob_name], extracted_on |-> now, complete |-> TRUE]

\* What open(json_path, "w") leaves when json.dump raises before it is done.
partial_file(now) == [opened_at |-> now, complete |-> FALSE]

\* process_blob's effect on the cache directory.
write_cache(files, blob_name, outcome, now) ==
    LET path == json_path_of(blob_name)
        put(content) == [f \in DOMAIN files \cup {path} |-> IF f = path THEN content ELSE files[f]]
    IN  IF ppt_already_processed(files, blob_name) THEN files
        ELSE CASE outcome = "ok" -> put(design_record(blob_name, now))
               [] outcome = "dump_raises" -> put(partial_file(now))
               [] OTHER -> files

MaxRuns == 2

InitExtract ==
    /\ ext_pc = "idle"
    /\ ext_run = 0
    /\ todo = <<>>
    /\ cache = <<>>
    /\ downloads = {}
    /\ extractions = {}
    /\ skips = {}
    /\ clock = 0
    /\ cache_after_first = None
    /\ IntentOff
    /\ GenOff
    /\ SlideOff
    /\ IngestOff

\* main(): the batch starts on the decks container_client.list_blobs() yields.
StartBatch ==
    /\ ext_pc = "idle"
    /\ ext_run < MaxRuns
    /\ ext_run' = ext_run + 1
    /\ todo' = SelectSeq(DatasetBlobs, is_deck)
    /\ ext_pc' = "running"
    /\ UNCHANGED <<cache, downloads, extractions, skips, clock, cache_after_first, notExtractVars>>

\* process_blob(blob.name), one pass of main's loop.
ProcessBlob ==
    /\ ext_pc = "running"
    /\ todo # <<>>
    /\ LET blob_name == Head(todo)
           call == [run |-> ext_run, blob |-> blob_name]
       IN  IF ppt_already_processed(cache, blob_name)
           THEN /\ skips' = skips \cup {call}
                /\ UNCHANGED <<cache, downloads, extractions, clock>>
           ELSE \E outcome \in ProcessOutcomes :
                /\ cache' = write_cache(cache, blob_name, outcome, clock + 1)
                /\ downloads' = downloads \cup {call}
                /\ extractions' = IF outcome = "download_raises" THEN extractions
                                  ELSE extractions \cup {call}
                /\ clock' = IF outcome \in {"download_raises", "extraction_raises"}
                            THEN clock ELSE clock + 1
                /\ skips' = skips
    /\ todo' = Tail(todo)
    /\ UNCHANGED <<ext_pc, ext_run, cache_after_first, notExtractVars>>

\* The listing raises while main iterates over it: the batch ends there.
ListingRaises ==
    /\ ext_pc = "running"
    /\ todo # <<>>
    /\ todo' = <<>>
    /\ UNCHANGED <<ext_pc, ext_run, cache, downloads, extractions, skips, clock,
                   cache_after_first, notExtractVars>>

\* "Design extraction complete."
EndBatch ==
    /\ ext_pc = "running"
    /\ todo = <<>>
    /\ ext_pc' = "idle"
    /\ cache_after_first' = IF ext_run = 1 THEN Some(cache) ELSE cache_after_first
    /\ UNCHANGED <<ext_run, todo, cache, downloads, extractions, skips, clock, notExtractVars>>

NextExtract ==
    \/ StartBatch
    \/ ProcessBlob
    \/ ListingRaises
    \/ EndBatch

SpecExtract == InitExtract /\ [][NextExtract]_vars

(***************************************************************************)
(* design_extractor.py: extract_slide_elements                             *)
(***************************************************************************)
S_icon ==
    <<"i", "c", "o", "n">>

N_Icon_1 ==
    <<"I", "c", "o", "n", " ", "1">>

N_Picture_2 ==
    <<"P", "i", "c", "t", "u", "r", "e", " ", "2">>

\* What reading a colour (a fill's fore_color, a line's color, the background's
\* fore_color) can come to: the shape has no such attribute or no colour with
\* an rgb; the colour is read; or reading it raises.
NoColor == [kind |-> "absent"]

Rgb(hex) == [kind |-> "rgb", rgb |-> hex]

ColorRaises == [kind |-> "raises"]

ShapeTypes == {"PICTURE", "TABLE", "CHART", "AUTO_SHAPE", "TEXT_BOX"}

ShapeNames == {N_Icon_1, N_Picture_2}

\* The fill, the outline and the fonts of the text runs of a shape.
ShapeLooks ==
    {[fill |-> NoColor, line |-> NoColor, fonts |-> <<>>],
     [fill |-> Rgb("FF0000"), line |-> Rgb("00FF00"), fonts |-> <<"Arial">>],
     [fill |-> ColorRaises, line |-> Rgb("0000FF"), fonts |-> <<"Georgia">>],
     [fill |-> Rgb("FFFF00"), line |-> ColorRaises, fonts |-> <<"Verdana", "Arial">>]}

\* chart_type_readable matters for a chart only: str(shape.chart.chart_type) or "Chart".
Shapes ==
    {[shape_type |-> t, name |-> n, fill |-> k.fill, line |-> k.line, fonts |-> k.fonts,
      chart_type_readable |-> (n = N_Icon_1)] :
        t \in ShapeTypes, n \in ShapeNames, k \in ShapeLooks}

SlideFrames ==
    {[layout |-> Some("Title and Content"), background |-> Rgb("FFFFFF")],
     [layout |-> None, background |-> ColorRaises],
     [layout |-> Some("Blank"), background |-> NoColor]}

MaxShapes == 2

SlideInputs ==
    {[layout |-> f.layout, background |-> f.background, shapes |-> ss] :
        f \in SlideFrames, ss \in UNION {[1..n -> Shapes] : n \in 0..MaxShapes}}

\* f"#{rgb}"
Hex(color) == <<"#", color.rgb>>

empty_slide_data ==
    [layout |-> None, background_color |-> None,
     images |-> <<>>, shapes |-> <<>>, charts |-> <<>>, tables |-> <<>>, icons |-> <<>>,
     text_fonts |-> <<>>, accent_colors |-> <<>>]

\* The if/elif chain on the shape type, the icon test being its last branch.
classify_shape(d, shape) ==
    CASE shape.shape_type = "PICTURE" -> [d EXCEPT !.images = Append(@, shape.name)]
      [] shape.shape_type = "TABLE" -> [d EXCEPT !.tables = Append(@, shape.name)]
      [] shape.shape_type = "CHART" ->
            [d EXCEPT !.charts = Append(@, IF shape.chart_type_readable
                                           THEN "str(chart_type)" ELSE "Chart")]
      [] shape.shape_type = "AUTO_SHAPE" -> [d EXCEPT !.shapes = Append(@, "str(auto_shape_type)")]
      [] OTHER -> IF Contains(Lower(shape.name), S_icon)
                  THEN [d EXCEPT !.icons = Append(@, shape.name)]
                  ELSE d

add_color(d, color) ==
    IF color.kind = "rgb" THEN [d EXCEPT !.accent_colors = Append(@, Hex(color))] ELSE d

add_fonts(d, fonts) == [d EXCEPT !.text_fonts = @ \o fonts]

\* The body of the try block for one shape: classification, fill colour, line
\* colour, fonts, in this order; an exception ends it where it is raised and
\* keeps what was appended before.
process_shape(d, shape) ==
    LET classified == classify_shape(d, shape)
    IN  IF shape.fill.kind = "raises" THEN classified
        ELSE LET filled == add_color(classified, shape.fill)
             IN  IF shape.line.kind = "raises" THEN filled
                 ELSE add_fonts(add_color(filled, shape.line), shape.fonts)

RECURSIVE shapes_loop(_, _)
shapes_loop(d, ss) ==
    IF Len(ss) = 0 THEN d ELSE shapes_loop(process_shape(d, Head(ss)), Tail(ss))

\* list(set(xs)): the order of the result is not defined, so it is kept as a set.
Dedup(xs) == {xs[i] : i \in 1..Len(xs)}

extract_slide_elements(slide) ==
    LET framed == [empty_slide_data EXCEPT
                     !.layout = slide.layout,
                     !.background_color = IF slide.background.kind = "rgb"
                                          THEN Some(Hex(slide.background)) ELSE None]
        looped == shapes_loop(framed, slide.shapes)
    IN  [looped EXCEPT !.accent_colors = Dedup(@), !.text_fonts = Dedup(@)]

InitSlide ==
    /\ spc = "call"
    /\ slide_in \in SlideInputs
    /\ slide_data = None
    /\ IntentOff
    /\ GenOff
    /\ ExtractOff
    /\ IngestOff

ExtractSlide ==
    /\ spc = "call"
    /\ slide_data' = Some(extract_slide_elements(slide_in))
    /\ spc' = "return"
    /\ UNCHANGED <<slide_in, intentVars, genVars, extractVars, ingestVars>>

NextSlide == ExtractSlide

SpecSlide == InitSlide /\ [][NextSlide]_vars

(***************************************************************************)
(* ingestion_chroma.py: process_blob                                       *)
(***************************************************************************)
\* The text of a shape of a source deck, as shape.text gives it.
ShapeTexts == {"", "  ", "Title", "Body"}

\* str.strip() on those texts.
strip(text) == IF text = "  " THEN "" ELSE text

\* extract_slides: per slide, the stripped non-empty shape texts in shape
\* order (the lines "\n".join puts together).
RECURSIVE slide_lines(_)
slide_lines(texts) ==
    IF Len(texts) = 0 THEN <<>>
    ELSE (IF strip(Head(texts)) # "" THEN <<strip(Head(texts))>> ELSE <<>>)
            \o slide_lines(Tail(texts))

extract_slides(deck) == [i \in 1..Len(deck) |-> [index |-> i - 1, text |-> slide_lines(deck[i])]]

\* text.split("\n", 1)[0] if text else ""
guessed_title(lines) == IF Len(lines) = 0 THEN "" ELSE lines[1]

\* os.path.splitext(os.path.basename(blob_name))[0]
ppt_base(blob_name) == blob_name.stem

\* The decks of the dataset that are ingested.
IngestBlobs == {BlobName("decks", "a", "pptx"), BlobName("", "b", "pptx")}

\* The slides a deck can have, each the texts of its shapes.
SlideTexts == {<<"  ">>, <<"Title", "  ", "Body">>}

MaxSlides == 2

DeckContents == UNION {[1..n -> SlideTexts] : n \in 0..MaxSlides}

\* What the embedding call can come to: one vector per text, an exception
\* (azure_embed_func returns []), or an answer without vectors.
EmbedOutcomes == {"ok", "raises", "no_vectors"}

\* azure_embed_func
azure_embed_func(alltexts, outcome) ==
    IF outcome = "ok" THEN [i \in 1..Len(alltexts) |-> [embedding_of |-> alltexts[i]]] ELSE <<>>

\* The entries one process_blob call hands to collection.add, given the first
\* of the fresh identifiers uuid.uuid4() yields: none when the deck has no
\* slides or the embedding call yields no vectors.
process_blob_entries_mut(blob_name, deck, outcome, first_id) ==
    LET ss == extract_slides(deck)
    IN  {[id |-> [uuid |-> ppt_base(blob_name), n |-> i],
          document |-> ss[i].text,
          embedding |-> [embedding_of |-> ss[i].text],
          metadata |-> [ppt_name |-> blob_name,
                        slide_id |-> <<ppt_base(blob_name), "_Slide_", ss[i].index>>,
                        slide_index |-> ss[i].index,
                        title |-> guessed_title(ss[i].text)]] : i \in 1..Len(ss)}

process_blob_entries(blob_name, deck, outcome, first_id) ==
    LET ss == extract_slides(deck)
        embeddings == azure_embed_func([i \in 1..Len(ss) |-> ss[i].text], outcome)
    IN  IF Len(ss) = 0 \/ Len(embeddings) = 0 THEN {}
        ELSE {[id |-> [uuid |-> first_id + i - 1],
               document |-> ss[i].text,
               embedding |-> embeddings[i],
               metadata |-> [ppt_name |-> blob_name,
                             slide_id |-> <<ppt_base(blob_name), "_Slide_", ss[i].index>>,
                             slide_index |-> ss[i].index,
                             title |-> guessed_title(ss[i].text)]] : i \in 1..Len(ss)}

MaxIngests == 3

InitIngest ==
    /\ collection = {}
    /\ next_uuid = 1
    /\ ingests = <<>>
    /\ deck_slides \in [IngestBlobs -> DeckContents]
    /\ IntentOff
    /\ GenOff
    /\ ExtractOff
    /\ SlideOff

\* process_blob(blob_name): download, extract, embed, add. A download that
\* raises ends the call before anything is written.
IngestBlob ==
    /\ deck_slides # <<>>
    /\ Len(ingests) < MaxIngests
    /\ \E blob_name \in IngestBlobs, download_ok \in BOOLEAN, outcome \in EmbedOutcomes :
        LET added == IF download_ok
                     THEN process_blob_entries(blob_name, deck_slides[blob_name], outcome, next_uuid)
                     ELSE {}
        IN  /\ collection' = collection \cup added
            /\ next_uuid' = next_uuid + (IF download_ok THEN Len(deck_slides[blob_name]) ELSE 0)
            /\ ingests' = Append(ingests,
                    [blob |-> blob_name,
                     embedded |-> download_ok /\ outcome = "ok",
                     before |-> collection])
    /\ UNCHANGED <<deck_slides, intentVars, genVars, extractVars, slideVars>>

NextIngest == IngestBlob

SpecIngest == InitIngest /\ [][NextIngest]_vars

(***************************************************************************)
(* Claims about parse_user_intent (checked under SpecIntent).              *)
(***************************************************************************)
\* The separators the claim's own example ("5-slide") needs between the
\* number and the word: none, whitespace, or a hyphen.
RECURSIVE SeparatorRunEnd(_, _)
SeparatorRunEnd(s, i) ==
    IF i <= Len(s) /\ s[i] \in Whitespace \cup {"-"} THEN SeparatorRunEnd(s, i + 1) ELSE i - 1

NumberBeforeSlide(s, i) ==
    /\ i <= Len(s)
    /\ IsDigit(s[i])
    /\ (i = 1 \/ ~IsDigit(s[i - 1]))
    /\ \E j \in (DigitRunEnd(s, i) + 1)..(SeparatorRunEnd(s, DigitRunEnd(s, i) + 1) + 1) :
            OccursAt(W_slide, s, j)

ClaimedSlideCount(s) ==
    IF \E i \in 1..Len(s) : NumberBeforeSlide(s, i)
    THEN LET i == CHOOSE k \in 1..Len(s) :
                    /\ NumberBeforeSlide(s, k)
                    /\ \A j \in 1..(k - 1) : ~NumberBeforeSlide(s, j)
         IN  Some(ParseInt(SubSeq(s, i, DigitRunEnd(s, i))))
    ELSE None

\* C3: parse_user_intent returns as slide count the first number of the prompt
\* that is immediately followed by "slide" or "slides" (case-insensitive), and
\* None when there is none; for "Create a 5-slide modern presentation about
\* healthcare design." it returns the slide count 5 and the theme "Modern".
C3_SlideCountDetected ==
    ipc = "return" =>
        /\ iresult.num_slides = ClaimedSlideCount(Lower(iprompt))
        /\ iprompt = P_healthcare =>
                iresult = [num_slides |-> Some(5), theme |-> Some(S_Modern)]

\* The vocabulary entries that occur in the lower-cased prompt, by position in
\* the vocabulary.
EntriesOccurring(p) ==
    LET lowered == Lower(p)
    IN  {k \in 1..Len(theme_words) : Contains(lowered, theme_words[k])}

\* C4: the theme parse_user_intent returns is the capitalized form of the first
\* entry, in vocabulary order, of (corporate, modern, minimal, professional,
\* dark, light, colorful, gradient, flat) that occurs in the lower-cased
\* prompt, wherever the words stand in the prompt (a prompt with both "dark"
\* and "corporate" yields "Corporate"), and None when no entry occurs.
C4_ThemeVocabularyOrder ==
    ipc = "return" =>
        LET occurring == EntriesOccurring(iprompt)
        IN  /\ occurring = {} => iresult.theme = None
            /\ \A k \in occurring :
                    (\A j \in occurring : k <= j) =>
                        iresult.theme = Some(Capitalize(theme_words[k]))
            /\ {1, 5} \subseteq occurring => iresult.theme = Some(S_Corporate)
            /\ theme_words[1] = W_corporate /\ theme_words[5] = W_dark

\* "dark" stands before "corporate" in the prompt and the theme is "Corporate".
C4_Witness ==
    /\ ipc = "return"
    /\ \E i, j \in 1..Len(iprompt) :
            /\ i < j
            /\ OccursAt(W_dark, Lower(iprompt), i)
            /\ OccursAt(W_corporate, Lower(iprompt), j)
    /\ iresult.theme = Some(S_Corporate)

(***************************************************************************)
(* Claims about generate_presentation (checked under Spec).                *)
(***************************************************************************)
\* The plan call did not yield a usable plan: it raised, its text was no JSON,
\* or the parsed result was empty.
NoUsablePlan == plan_outcome \in {"raises", "prose", "empty_array"}

\* The document has been built (the request is at, or past, the uploads).
Built == pc \in {"upload_ppt", "upload_log", "done", "raised"}

\* C1: whenever the plan call yields no usable plan (it raises, returns text
\* that is no JSON, or parses to something empty), the pipeline goes on with
\* the fallback plan: the document it builds has exactly one slide, titled
\* "Intro", with the single bullet "Overview" and no image, and the log it
\* returns has slides_generated = 1.
C1_FallbackOnBadPlan ==
    NoUsablePlan =>
        /\ pc # "raised" \/ Len(doc) = 1
        /\ Built =>
            /\ Len(doc) = 1
            /\ doc[1].title = "Intro"
            /\ BulletsOf(doc[1]) = <<"Overview">>
            /\ doc[1].picture = None
        /\ pc = "done" =>
            /\ ret.val.log.slides_generated = 1
            /\ ret.val.out_path = local_pptx
            /\ blobs[deck_blob(uploaded_pptx)] = [pptx |-> doc]

\* The request returned after a plan call that raised.
C1_Witness ==
    /\ pc = "done"
    /\ plan_outcome = "raises"
    /\ Len(doc) = 1
    /\ ret.val.log.slides_generated = 1

\* C2: no failure of an externally-fallible operation (retrieval, the plan
\* call, the image call or download, picture placement, the upload of the
\* deck or of the log) aborts generate_presentation: it never raises.
C2_NeverAborts == pc # "raised"

ImageFailed(i) == image_outcomes[i] \in {"generate_raises", "download_raises"}

\* C5: a plan entry with visual_required whose image generation or download
\* fails yields a slide without image path; every slide has the title and
\* bullets of its own plan entry and the image path its own image step gave,
\* whatever happened to the other slides; the image steps never raise, so all
\* slides of the plan are generated, and the log counts as many slides as the
\* plan has entries.
C5_VisualFailureIsolated ==
    /\ Len(image_outcomes) = Len(slides)
    /\ Len(slides) <= Len(plan)
    /\ \A i \in 1..Len(slides) :
        /\ slides[i].title = Get(plan[i].title, "Untitled")
        /\ slides[i].bullets = Get(plan[i].bullets, <<>>)
        /\ ImageFailed(i) => Get(plan[i].visual_required, FALSE) /\ slides[i].image_path = None
        /\ image_outcomes[i] = "ok" => slides[i].image_path = Some([tmp_png |-> i])
        /\ image_outcomes[i] = "not_required" => slides[i].image_path = None
    /\ Built => Len(slides) = Len(plan) /\ Len(doc) = Len(plan)
    /\ pc = "done" => ret.val.log.slides_generated = Len(plan)

\* The request returned although an image download failed, and another slide
\* of the same plan has its image.
C5_Witness ==
    /\ pc = "done"
    /\ \E i, j \in 1..Len(slides) :
        /\ image_outcomes[i] = "download_raises"
        /\ slides[i].image_path = None
        /\ image_outcomes[j] = "ok"
        /\ slides[j].image_path.some

\* C6: for the prompt "Create a 3-slide minimal presentation about
\* onboarding", a chat response that parses to a plan of three entries none of
\* which requires a visual, and a search that returns no hits, the document
\* has exactly three slides with the plan's titles in plan order, and the log
\* has slides_generated = 3, design_jsons_used = 0, references_used = 0 and
\* requested_num_slides = 3.
C6_EndToEnd ==
    (/\ pc = "done"
     /\ prompt = P_onboarding
     /\ arg_num_slides = None
     /\ arg_theme = None
     /\ refs = <<>>
     /\ plan_outcome = "plan"
     /\ plan = ThreeTextSlides)
    =>  /\ Len(doc) = 3
        /\ \A i \in 1..3 : doc[i].title = plan[i].title.val
        /\ ret.val.log.slides_generated = 3
        /\ ret.val.log.design_jsons_used = 0
        /\ ret.val.log.references_used = 0
        /\ ret.val.log.requested_num_slides = Some(3)

\* C10: a slide count or theme the caller supplies is the one used for the
\* instruction to the model and recorded in the log, whatever the prompt says;
\* the detected value is used only for an argument the caller did not supply.
\* This includes a supplied slide count of 0.
C10_SuppliedIntentWins ==
    /\ (pc # "intent" /\ arg_num_slides.some) => requested_num_slides = arg_num_slides
    /\ (pc # "intent" /\ arg_theme.some) => theme = arg_theme
    /\ (llm_request.some /\ arg_num_slides.some) =>
            llm_request.val.produce_exactly = arg_num_slides
    /\ (llm_request.some /\ arg_theme.some) =>
            llm_request.val.theme_preference = arg_theme
    /\ (pc = "done" /\ arg_num_slides.some) =>
            ret.val.log.requested_num_slides = arg_num_slides
    /\ (pc = "done" /\ arg_theme.some) => ret.val.log.theme = arg_theme

(***************************************************************************)
(* Claims about the design-extraction batch job (checked under SpecExtract)*)
(***************************************************************************)
\* The calls of process_blob a step makes that download or extract a deck.
Fetched(before, after) == after \ before

\* The first two runs of the batch went through every deck of the dataset.
BothRunsComplete ==
    \A r \in 1..2, i \in 1..Len(DatasetBlobs) :
        is_deck(DatasetBlobs[i]) =>
            [run |-> r, blob |-> DatasetBlobs[i]] \in skips \cup downloads

\* C7 as stated: a deck whose cache file exists is neither downloaded nor
\* extracted again, and running the batch twice in succession leaves the
\* cache exactly as it was after the first run.
C7_SecondRunChangesNothing ==
    /\ skips \cap (downloads \cup extractions) = {}
    /\ (ext_run = 2 /\ ext_pc = "idle" /\ BothRunsComplete) => cache = cache_after_first.val

\* C7 as amended: a process_blob call for a deck whose cache file exists
\* downloads nothing, extracts nothing and leaves the cache as it is; no step
\* of the batch job removes or rewrites a cache file that exists. A second run
\* of the batch therefore leaves every file the first run left as it is, and
\* can only add files for decks that had none.
C7_CachedDeckUntouched ==
    [][/\ \A f \in DOMAIN cache : f \in DOMAIN cache' /\ cache'[f] = cache[f]
       /\ \A call \in Fetched(downloads, downloads') \cup Fetched(extractions, extractions') :
            json_path_of(call.blob) \notin DOMAIN cache
       /\ Fetched(skips, skips') # {} =>
            /\ cache' = cache
            /\ downloads' = downloads
            /\ extractions' = extractions
            /\ \A call \in Fetched(skips, skips') : json_path_of(call.blob) \in DOMAIN cache
      ]_vars

\* The second run is over; it met a deck whose cache file existed, and the
\* cache is as the first run left it.
C7_Witness ==
    /\ ext_run = 2
    /\ ext_pc = "idle"
    /\ BothRunsComplete
    /\ \E call \in skips : call.run = 2
    /\ DOMAIN cache # {}
    /\ cache = cache_after_first.val

\* C12: a deck whose processing fails never becomes "already processed":
\* every file of the cache holds a complete Design Record, whether the failure
\* was in the extraction or at the write step, so a deck the batch skips as
\* already processed is one whose complete record was written.
C12_FailedDeckNotCached ==
    /\ \A f \in DOMAIN cache : cache[f].complete
    /\ \A call \in skips :
            /\ json_path_of(call.blob) \in DOMAIN cache
            /\ cache[json_path_of(call.blob)].complete

(***************************************************************************)
(* Claims about extract_slide_elements (checked under SpecSlide).          *)
(***************************************************************************)
ColorUnreadable(shape) == shape.fill.kind = "raises" \/ shape.line.kind = "raises"

ReadableColors(shape) ==
    {Hex(c) : c \in {k \in {shape.fill, shape.line} : k.kind = "rgb"}}

NamesOfType(ss, t) ==
    LET picked == SelectSeq(ss, LAMBDA sh : sh.shape_type = t)
    IN  [i \in 1..Len(picked) |-> picked[i].name]

\* C8: when the fill or outline colour of a shape cannot be read, the slide's
\* record is still returned; it has the classifications, colours and fonts of
\* all other shapes, and of the failing shape only its accent colours are
\* left out: its type classification and its text fonts are recorded.
C8_ShapeFailureIsolated ==
    spc = "return" =>
        LET d == slide_data.val
            ss == slide_in.shapes
        IN  /\ d.images = NamesOfType(ss, "PICTURE")
            /\ d.tables = NamesOfType(ss, "TABLE")
            /\ Len(d.charts) = Len(NamesOfType(ss, "CHART"))
            /\ Len(d.shapes) = Len(NamesOfType(ss, "AUTO_SHAPE"))
            /\ d.text_fonts = UNION {Dedup(ss[i].fonts) : i \in 1..Len(ss)}
            /\ UNION {ReadableColors(ss[i]) : i \in {k \in 1..Len(ss) : ~ColorUnreadable(ss[k])}}
                    \subseteq d.accent_colors
            /\ d.accent_colors \subseteq UNION {ReadableColors(ss[i]) : i \in 1..Len(ss)}

NamesWithIcon(ss) ==
    LET picked == SelectSeq(ss, LAMBDA sh : Contains(Lower(sh.name), S_icon))
    IN  [i \in 1..Len(picked) |-> picked[i].name]

\* C11: the icons bucket of the returned record holds the name of every shape
\* whose name contains "icon" in any letter case, whatever the shape's type,
\* so a picture, table, chart or auto-shape of such a name is in its type
\* bucket and in the icons bucket.
C11_IconIndependentOfType ==
    spc = "return" => slide_data.val.icons = NamesWithIcon(slide_in.shapes)

(***************************************************************************)
(* Claims about the ingestion job (checked under SpecIngest).              *)
(***************************************************************************)
EntriesOf(coll, blob_name) == {e \in coll : e.metadata.ppt_name = blob_name}

\* The index as the k-th process_blob call left it.
IndexAfter(k) == IF k < Len(ingests) THEN ingests[k + 1].before ELSE collection

EmbeddedRuns(blob_name) ==
    {k \in 1..Len(ingests) : ingests[k].blob = blob_name /\ ingests[k].embedded}

\* C9: every process_blob call whose embedding call succeeds adds one entry
\* per slide of the deck, under identifiers no other entry has, and changes or
\* removes no entry; a call whose embedding call fails or yields no vectors,
\* or whose deck has no slides, adds nothing. So a deck of n slides ingested
\* twice has 2n entries, n from each run.
C9_IngestionDuplicates ==
    /\ \A e1, e2 \in collection : e1.id = e2.id => e1 = e2
    /\ \A b \in IngestBlobs :
            Cardinality(EntriesOf(collection, b)) = Len(deck_slides[b]) * Cardinality(EmbeddedRuns(b))
    /\ \A k \in 1..Len(ingests) :
        LET added == IndexAfter(k) \ ingests[k].before
        IN  /\ ingests[k].before \subseteq IndexAfter(k)
            /\ added = EntriesOf(added, ingests[k].blob)
            /\ Cardinality(added) = IF ingests[k].embedded
                                     THEN Len(deck_slides[ingests[k].blob]) ELSE 0

\* A deck with slides was ingested twice in succession, both times embedded,
\* and has twice as many entries as slides.
C9_Witness ==
    /\ Len(ingests) >= 2
    /\ ingests[1].blob = ingests[2].blob
    /\ ingests[1].embedded /\ ingests[2].embedded
    /\ Len(deck_slides[ingests[1].blob]) >= 1
    /\ Cardinality(EntriesOf(IndexAfter(2), ingests[1].blob))
            = 2 * Len(deck_slides[ingests[1].blob])

====
